---------------------------- MODULE Spec2Model ----------------------------
(***************************************************************************)
(* Baseload renewables: the hourly dispatch simulation, the capacity sweep *)
(* and the farthest-point site selection.                                  *)
(*                                                                         *)
(* Energies are Python floats in the source.  Here an energy is an integer *)
(* count of 1/Scale MWh.  With integer yields and capacities and with a    *)
(* one-way efficiency p/q drawn from Efficiencies, every product and       *)
(* quotient of the hourly loop is a multiple of 1/(p*p*q*q) MWh, so the    *)
(* integer arithmetic below is the exact real arithmetic of the loop.      *)
(***************************************************************************)
EXTENDS Integers, Sequences, FiniteSets, TLC

VARIABLES
    site,                   \* the Site the profile belongs to
    datetimes,              \* pv_profile.datetimes
    pv_kwh_per_kw,          \* pv_profile.pv_kwh_per_kw
    pv_gw, battery_gwh,     \* the configuration being simulated
    baseload_gw, rte,       \* config.baseload_gw, config.round_trip_efficiency
    soc,                    \* state of charge, 1/Scale MWh
    unmet_total, overproduction_total, served_total,
    k,                      \* number of zip() pairs consumed by the for loop
    hour,                   \* the locals of the last loop iteration
    hourly_rows,            \* rows written through hourly_writer
    summary,                \* the dict _simulate_single_configuration returned
    pc,                     \* where the simulation is: "idle", "loop", "returned", "raised"
    pv_capacities_gw,       \* config.pv_capacities_gw
    battery_capacities_gwh, \* config.battery_capacities_gwh
    pv_idx, bat_idx,        \* positions of the two for loops of run_yearly_simulation
    summary_rows,           \* the summaries collected by run_yearly_simulation
    sweep_pc,               \* "off", "sweep", "simulating", "done"
    seed,                   \* generate_sites' seed: <<>> for None, <<s>> for the int s
    n,                      \* the number of sites asked for
    sites,                  \* the candidates select_sites is called with
    pool, selected, remaining,  \* the locals of select_sites
    normalized,             \* the list select_sites returned
    sel_pc,                 \* "off", "generate", "select", "loop", "done", "raised"
    sel_error,              \* the exception select_sites raised, "" for none
    first                   \* what an earlier run of generate_sites did

simVars == <<site, datetimes, pv_kwh_per_kw, pv_gw, battery_gwh, baseload_gw, rte,
             soc, unmet_total, overproduction_total, served_total, k, hour,
             hourly_rows, summary, pc>>

sweepVars == <<pv_capacities_gw, battery_capacities_gwh, pv_idx, bat_idx,
               summary_rows, sweep_pc>>

selVars == <<seed, n, sites, pool, selected, remaining, normalized, sel_pc,
             sel_error, first>>

vars == <<simVars, sweepVars, selVars>>

---------------------------------------------------------------------------
(* Bounds of the model *)

MaxHours == 3
ExpectedHours == 3
MaxSweepHours == 2
MaxLevels == 2
MaxPool == 4

---------------------------------------------------------------------------
(* Numbers *)

\* One MWh (or one GW, one degree, ...) in the fixed-point unit.  90*90 is
\* divisible by p*p*q*q for every one-way efficiency p/q of Efficiencies.
Scale == 90 * 90

Max(a, b) == IF a >= b THEN a ELSE b
Min(a, b) == IF a <= b THEN a ELSE b
Abs(a) == IF a < 0 THEN -a ELSE a

\* Integer square root of a perfect square.
ISqrt(x) == CHOOSE r \in 0..x : r * r = x

\* rte ** 0.5 on a rational num/den whose numerator and denominator are squares.
Sqrt(r) == [num |-> ISqrt(r.num), den |-> ISqrt(r.den)]

\* x * e and x / e for an efficiency e = num/den
Times(x, e) == (x * e.num) \div e.den
Over(x, e) == (x * e.den) \div e.num

\* e > 0
Positive(e) == e.num > 0

\* Round a/b (a >= 0, b > 0) to the nearest integer, ties to even, as float formatting does.
RoundDiv(a, b) ==
    LET q == a \div b
        r == a % b
    IN  IF 2 * r > b \/ (2 * r = b /\ q % 2 = 1) THEN q + 1 ELSE q

RECURSIVE Pow10(_)
Pow10(d) == IF d = 0 THEN 1 ELSE 10 * Pow10(d - 1)

RECURSIVE Digits(_, _)
Digits(f, d) == IF d = 0 THEN "" ELSE Digits(f \div 10, d - 1) \o ToString(f % 10)

\* The text of units/10^d with d decimals, units >= 0.
Decimal(units, d) == ToString(units \div Pow10(d)) \o "." \o Digits(units % Pow10(d), d)

\* f"{x:.df}" of an energy x (1/Scale MWh), d >= 2.  Scale = 81 * 100, so the
\* whole part and the remainder are scaled apart to stay within 32 bits.
Fixed(x, d) ==
    LET mag == Abs(x)
        whole == mag \div Scale
        frac == RoundDiv((mag % Scale) * Pow10(d - 2), Scale \div 100)
        carry == frac \div Pow10(d)
        body == ToString(whole + carry) \o "." \o Digits(frac % Pow10(d), d)
    IN  IF x < 0 THEN "-" \o body ELSE body

\* f"{x:.df}" of a plain integer x (a capacity in GW, a coordinate in degrees).
FixedInt(x, d) == Fixed(x * Scale, d)

---------------------------------------------------------------------------
(* Inputs of the simulation *)

\* One-way efficiencies p/q the model draws rte = (p/q)^2 from: 0, 1/2, 9/10, 1.
Efficiencies == {[num |-> 0, den |-> 1], [num |-> 1, den |-> 2],
                 [num |-> 9, den |-> 10], [num |-> 1, den |-> 1]}

RoundTripEfficiencies == {[num |-> e.num * e.num, den |-> e.den * e.den] : e \in Efficiencies}

\* Hourly yields (pv_kwh_per_kw).  A negative yield is a malformed series.
Yields == {-500, 0, 500, 1000, 1500}

PvCapacities == {1, 2}
BatteryCapacities == {0, 1, 2}
Baseloads == {1}

RECURSIVE SeqsUpTo(_, _)
SeqsUpTo(S, len) ==
    IF len = 0 THEN {<<>>}
    ELSE LET shorter == SeqsUpTo(S, len - 1)
         IN  shorter \cup {Append(s, x) : s \in {t \in shorter : Len(t) = len - 1}, x \in S}

\* datetimes of an L-hour profile: the hours 1..L of the year, ascending.
HoursOfYear(L) == [j \in 1..L |-> j]

\* dt.isoformat()
IsoFormat(dt) == "2021-01-01T" \o Digits(dt - 1, 2) \o ":00:00"

---------------------------------------------------------------------------
(* _simulate_single_configuration *)

baseload_mwh == baseload_gw * 1000 * Scale
pv_multiplier == (pv_gw * 1000000) \div 1000
CapacityMwh(battery) == battery * 1000 * Scale
capacity_mwh == CapacityMwh(battery_gwh)
\* soc = 0.5 * capacity_mwh
InitialSocShared(capacity) == IF summary_rows = <<>> THEN capacity \div 2 ELSE soc
InitialSoc(capacity) == capacity \div 2
charge_eff == Sqrt(rte)
discharge_eff == Sqrt(rte)

\* zip(pv_profile.datetimes, pv_profile.pv_kwh_per_kw) stops at the shorter list.
ZipLen == Min(Len(datetimes), Len(pv_kwh_per_kw))

SolarMwh(pv_value) == ((pv_value * pv_multiplier) \div 1000) * Scale
Surplus(solar_mwh) == Max(0, solar_mwh - baseload_mwh)
Deficit(solar_mwh) == Max(0, baseload_mwh - solar_mwh)

\* The conditions under which lines 60 and 64 evaluate their division.
ChargeDividesAlways(eff) == TRUE
ChargeDivides(eff) == Positive(eff)
DischargeDivides(eff) == Positive(eff)

PotentialCharge(surplus) == Times(surplus, charge_eff)
ChargeAddedUnclamped(s, potential_charge) == potential_charge
ChargeAdded(s, potential_charge) == Min(capacity_mwh - s, potential_charge)
EnergyUsedForChargeLossless(charge_added) == charge_added
EnergyUsedForCharge(charge_added) ==
    IF ChargeDivides(charge_eff) THEN Over(charge_added, charge_eff) ELSE 0
OverproductionIgnoringCharge(surplus, energy_used_for_charge) == surplus
Overproduction(surplus, energy_used_for_charge) == Max(0, surplus - energy_used_for_charge)
PossibleDischargeUnlimited(s, deficit) ==
    IF DischargeDivides(discharge_eff) THEN Over(deficit, discharge_eff) ELSE 0
PossibleDischargeReserved(s, deficit) ==
    Min(s \div 2, IF DischargeDivides(discharge_eff) THEN Over(deficit, discharge_eff) ELSE 0)
PossibleDischarge(s, deficit) ==
    Min(s, IF DischargeDivides(discharge_eff) THEN Over(deficit, discharge_eff) ELSE 0)
DischargeToLoadLossless(possible_discharge) == possible_discharge
DischargeToLoad(possible_discharge) == Times(possible_discharge, discharge_eff)
Unmet(deficit, discharge_to_load) == Max(0, deficit - discharge_to_load)
ServedIgnoringUnmet(unmet) == baseload_mwh
Served(unmet) == baseload_mwh - unmet

\* A division of the loop body is evaluated with a zero divisor.
ZeroDivision(pv_value) ==
    LET solar_mwh == SolarMwh(pv_value)
    IN  IF Surplus(solar_mwh) > 0 THEN ChargeDivides(charge_eff) /\ charge_eff.num = 0
        ELSE IF Deficit(solar_mwh) > 0
             THEN DischargeDivides(discharge_eff) /\ discharge_eff.num = 0
             ELSE FALSE

NoHour == [soc_before |-> 0, solar_mwh |-> 0, surplus |-> 0, deficit |-> 0,
           potential_charge |-> 0, charge_added |-> 0, energy_used_for_charge |-> 0,
           possible_discharge |-> 0, discharge_to_load |-> 0, unmet |-> 0,
           overproduction |-> 0, served |-> 0, soc |-> 0]

\* The body of the for loop (lines 49-68) from state of charge s: its locals.
HourBody(s, pv_value) ==
    LET solar_mwh == SolarMwh(pv_value)
        surplus == Surplus(solar_mwh)
        deficit == Deficit(solar_mwh)
        base == [NoHour EXCEPT !.soc_before = s, !.solar_mwh = solar_mwh,
                               !.surplus = surplus, !.deficit = deficit, !.soc = s]
        branch ==
        IF surplus > 0
        THEN LET potential_charge == PotentialCharge(surplus)
                 charge_added == ChargeAdded(s, potential_charge)
                 energy_used_for_charge == EnergyUsedForCharge(charge_added)
                 overproduction == Overproduction(surplus, energy_used_for_charge)
             IN  [base EXCEPT !.potential_charge = potential_charge,
                              !.charge_added = charge_added,
                              !.energy_used_for_charge = energy_used_for_charge,
                              !.overproduction = overproduction,
                              !.soc = s + charge_added]
        ELSE IF deficit > 0
        THEN LET possible_discharge == PossibleDischarge(s, deficit)
                 discharge_to_load == DischargeToLoad(possible_discharge)
                 unmet == Unmet(deficit, discharge_to_load)
             IN  [base EXCEPT !.possible_discharge = possible_discharge,
                              !.discharge_to_load = discharge_to_load,
                              !.unmet = unmet,
                              !.soc = s - possible_discharge]
        ELSE base
    IN  [branch EXCEPT !.served = Served(branch.unmet)]

\* The state of charge after the first j iterations of the loop, and the
\* locals of the j-th iteration, as functions of the profile.
RECURSIVE SocAfter(_)
SocAfter(j) ==
    IF j = 0 THEN InitialSoc(capacity_mwh)
    ELSE HourBody(SocAfter(j - 1), pv_kwh_per_kw[j]).soc

HourAt(j) == HourBody(SocAfter(j - 1), pv_kwh_per_kw[j])

\* The row hourly_writer.writerow receives (lines 72-88).
HourlyRow(dt, h) ==
    [datetime |-> IsoFormat(dt),
     site |-> site.name,
     latitude |-> FixedInt(site.latitude, 4),
     longitude |-> FixedInt(site.longitude, 4),
     pv_gw |-> FixedInt(pv_gw, 2),
     battery_gwh |-> FixedInt(battery_gwh, 2),
     solar_generation_mwh |-> Fixed(h.solar_mwh, 6),
     load_mwh |-> Fixed(baseload_mwh, 2),
     battery_state_of_charge_mwh |-> Fixed(h.soc, 6),
     battery_charge_mwh |-> Fixed(h.charge_added, 6),
     battery_discharge_mwh |-> Fixed(h.discharge_to_load, 6),
     unmet_load_mwh |-> Fixed(h.unmet, 6),
     overproduction_mwh |-> Fixed(h.overproduction, 6)]

\* len(pv_profile.datetimes) and the annual load (lines 89-90)
Hours == Len(datetimes)
LoadTotal == baseload_mwh * Hours

\* f"{cf:.4f}" (lines 91, 102).  load_total is a multiple of 10^4 units.
CapacityFactor ==
    IF LoadTotal > 0
    THEN (IF served_total < 0 THEN "-" ELSE "")
            \o Decimal(RoundDiv(Abs(served_total), LoadTotal \div 10000), 4)
    ELSE Decimal(0, 4)

\* The summary dict (lines 92-103).
Summary ==
    [site |-> site.name,
     latitude |-> FixedInt(site.latitude, 4),
     longitude |-> FixedInt(site.longitude, 4),
     pv_gw |-> FixedInt(pv_gw, 2),
     battery_gwh |-> FixedInt(battery_gwh, 2),
     annual_load_mwh |-> Fixed(LoadTotal, 2),
     energy_served_mwh |-> Fixed(served_total, 2),
     unmet_load_mwh |-> Fixed(unmet_total, 2),
     overproduction_mwh |-> Fixed(overproduction_total, 2),
     capacity_factor |-> CapacityFactor]

NoSummary == [site |-> ""]

\* Lines 38-46: the locals before the loop, for the configuration (pv, battery).
Enter(pv, battery) ==
    /\ pv_gw' = pv
    /\ battery_gwh' = battery
    /\ soc' = InitialSoc(CapacityMwh(battery))
    /\ unmet_total' = 0
    /\ overproduction_total' = 0
    /\ served_total' = 0
    /\ k' = 0
    /\ hour' = NoHour
    /\ summary' = NoSummary
    /\ pc' = "loop"

\* One iteration of the for loop (lines 48-88).
HourStep ==
    /\ pc = "loop"
    /\ k < ZipLen
    /\ LET dt == datetimes[k + 1]
           pv_value == pv_kwh_per_kw[k + 1]
       IN  IF ZeroDivision(pv_value)
           THEN /\ pc' = "raised"
                /\ UNCHANGED <<soc, unmet_total, overproduction_total, served_total,
                               k, hour, hourly_rows>>
           ELSE LET h == HourBody(soc, pv_value)
                IN  /\ soc' = h.soc
                    /\ unmet_total' = unmet_total + h.unmet
                    /\ overproduction_total' = overproduction_total + h.overproduction
                    /\ served_total' = served_total + h.served
                    /\ hour' = h
                    /\ hourly_rows' = Append(hourly_rows, HourlyRow(dt, h))
                    /\ k' = k + 1
                    /\ pc' = "loop"
    /\ UNCHANGED <<site, datetimes, pv_kwh_per_kw, pv_gw, battery_gwh, baseload_gw,
                   rte, summary>>
    /\ UNCHANGED <<sweepVars, selVars>>

\* The loop is exhausted: build and return the summary (lines 89-104).
Return ==
    /\ pc = "loop"
    /\ k = ZipLen
    /\ summary' = Summary
    /\ pc' = "returned"
    /\ UNCHANGED <<site, datetimes, pv_kwh_per_kw, pv_gw, battery_gwh, baseload_gw,
                   rte, soc, unmet_total, overproduction_total, served_total, k,
                   hour, hourly_rows>>
    /\ UNCHANGED <<sweepVars, selVars>>

\* No sweep and no site selection is running.
NoSweep ==
    /\ pv_capacities_gw = <<>>
    /\ battery_capacities_gwh = <<>>
    /\ pv_idx = 0
    /\ bat_idx = 0
    /\ summary_rows = <<>>
    /\ sweep_pc = "off"

NoFirst == [done |-> FALSE, seed |-> <<>>, shuffled |-> <<>>, outcome |-> <<>>]

NoSelection ==
    /\ seed = <<>>
    /\ n = 0
    /\ sites = <<>>
    /\ pool = <<>>
    /\ selected = <<>>
    /\ remaining = <<>>
    /\ normalized = <<>>
    /\ sel_pc = "off"
    /\ sel_error = ""
    /\ first = NoFirst

SimSites == {[name |-> "site_1_Quito", latitude |-> 0, longitude |-> -78]}

\* A call of _simulate_single_configuration on any profile and configuration.
Init ==
    /\ site \in SimSites
    /\ \E L \in 0..MaxHours : datetimes = HoursOfYear(L)
    /\ pv_kwh_per_kw \in SeqsUpTo(Yields, MaxHours)
    /\ pv_gw \in PvCapacities
    /\ battery_gwh \in BatteryCapacities
    /\ baseload_gw \in Baseloads
    /\ rte \in RoundTripEfficiencies
    /\ soc = InitialSoc(capacity_mwh)
    /\ unmet_total = 0
    /\ overproduction_total = 0
    /\ served_total = 0
    /\ k = 0
    /\ hour = NoHour
    /\ hourly_rows = <<>>
    /\ summary = NoSummary
    /\ pc = "loop"
    /\ NoSweep
    /\ NoSelection

Next == HourStep \/ Return

Spec == Init /\ [][Next]_vars

---------------------------------------------------------------------------
(* run_yearly_simulation *)

\* Yields, battery levels and efficiencies the sweep is run on.
SweepYields == {0, 1500}
SweepBatteryCapacities == {0, 1}
SweepRoundTripEfficiencies == {r \in RoundTripEfficiencies : 2 * r.num > r.den}

\* Lines 135-145: the loops are at a (pv, battery) pair: call the simulation.
CallSimulation ==
    /\ sweep_pc = "sweep"
    /\ pv_idx <= Len(pv_capacities_gw)
    /\ bat_idx <= Len(battery_capacities_gwh)
    /\ Enter(pv_capacities_gw[pv_idx], battery_capacities_gwh[bat_idx])
    /\ sweep_pc' = "simulating"
    /\ UNCHANGED <<site, datetimes, pv_kwh_per_kw, baseload_gw, rte, hourly_rows,
                   pv_capacities_gw, battery_capacities_gwh, pv_idx, bat_idx,
                   summary_rows, selVars>>

\* Line 146: the call returned; append its summary, advance the inner loop.
AppendSummary ==
    /\ sweep_pc = "simulating"
    /\ pc = "returned"
    /\ summary_rows' = Append(summary_rows, summary)
    /\ bat_idx' = bat_idx + 1
    /\ sweep_pc' = "sweep"
    /\ pc' = "idle"
    /\ UNCHANGED <<site, datetimes, pv_kwh_per_kw, pv_gw, battery_gwh, baseload_gw,
                   rte, soc, unmet_total, overproduction_total, served_total, k,
                   hour, hourly_rows, summary,
                   pv_capacities_gw, battery_capacities_gwh, pv_idx, selVars>>

\* Lines 135-136: the inner loop is exhausted; the outer loop takes its next
\* pv_gw and the inner loop starts over.
NextPv ==
    /\ sweep_pc = "sweep"
    /\ pv_idx <= Len(pv_capacities_gw)
    /\ bat_idx > Len(battery_capacities_gwh)
    /\ pv_idx' = pv_idx + 1
    /\ bat_idx' = 1
    /\ UNCHANGED <<simVars, pv_capacities_gw, battery_capacities_gwh, summary_rows,
                   sweep_pc, selVars>>

\* Lines 147-152: both loops are exhausted; write and return summary_rows.
ReturnResult ==
    /\ sweep_pc = "sweep"
    /\ pv_idx > Len(pv_capacities_gw)
    /\ sweep_pc' = "done"
    /\ UNCHANGED <<simVars, pv_capacities_gw, battery_capacities_gwh, pv_idx, bat_idx,
                   summary_rows, selVars>>

\* A call of run_yearly_simulation on a profile of the data contract's shape.
SweepInit ==
    /\ site \in SimSites
    /\ pv_kwh_per_kw \in SeqsUpTo(SweepYields, MaxSweepHours)
    /\ datetimes = HoursOfYear(Len(pv_kwh_per_kw))
    /\ pv_capacities_gw \in SeqsUpTo(PvCapacities, MaxLevels)
    /\ battery_capacities_gwh \in SeqsUpTo(SweepBatteryCapacities, MaxLevels)
    /\ baseload_gw \in Baseloads
    /\ rte \in SweepRoundTripEfficiencies
    /\ pv_gw = 0
    /\ battery_gwh = 0
    /\ soc = 0
    /\ unmet_total = 0
    /\ overproduction_total = 0
    /\ served_total = 0
    /\ k = 0
    /\ hour = NoHour
    /\ hourly_rows = <<>>
    /\ summary = NoSummary
    /\ pc = "idle"
    /\ pv_idx = 1
    /\ bat_idx = 1
    /\ summary_rows = <<>>
    /\ sweep_pc = "sweep"
    /\ NoSelection

SweepNext == CallSimulation \/ HourStep \/ Return \/ AppendSummary \/ NextPv \/ ReturnResult

SweepSpec == SweepInit /\ [][SweepNext]_vars

---------------------------------------------------------------------------
(* Site selection *)

\* A stand-in for the curated list: sites on the equator one degree apart.
\* A name is the sequence of its characters.
CANDIDATE_COORDINATES ==
    << [name |-> <<"A", ",", " ", "X">>, latitude |-> 0, longitude |-> 0],
       [name |-> <<"B">>, latitude |-> 0, longitude |-> 1],
       [name |-> <<"C", " ", "D">>, latitude |-> 0, longitude |-> 2],
       [name |-> <<"E">>, latitude |-> 0, longitude |-> 3] >>

NorthPole == [name |-> <<"N", ",", " ", "P">>, latitude |-> 90, longitude |-> 0]

\* The candidates the pools handed to select_sites are drawn from.
CandidateSites == {CANDIDATE_COORDINATES[i] : i \in DOMAIN CANDIDATE_COORDINATES}
                      \cup {NorthPole}

\* Great-circle distance in degrees of arc, for points on the equator or at a
\* pole, where the haversine formula reduces to an angle difference.  The
\* source returns this angle times the constant 6371 * pi / 180 km.
haversine_distance(lat1, lon1, lat2, lon2) ==
    IF lat1 = 0 /\ lat2 = 0
    THEN LET dlambda == Abs(lon2 - lon1) % 360
         IN  Min(dlambda, 360 - dlambda)
    ELSE Abs(lat2 - lat1)

\* min(haversine_distance(candidate, s) for s in selected), lines 115-118
MinDistance(candidate, sel) ==
    LET ds == {haversine_distance(candidate.latitude, candidate.longitude,
                                  sel[i].latitude, sel[i].longitude) : i \in DOMAIN sel}
    IN  CHOOSE d \in ds : \A other \in ds : d <= other

\* Line 119: the candidate replaces the best one found so far.
FartherOrEqual(min_distance, max_distance) == min_distance >= max_distance
Farther(min_distance, max_distance) == min_distance > max_distance

\* Lines 112-121: the scan of remaining from position i on; the position of
\* max_site, 0 for None.
RECURSIVE ScanRemaining(_, _, _, _, _)
ScanRemaining(rem, sel, i, max_site, max_distance) ==
    IF i > Len(rem) THEN max_site
    ELSE LET min_distance == MinDistance(rem[i], sel)
         IN  IF Farther(min_distance, max_distance)
             THEN ScanRemaining(rem, sel, i + 1, i, min_distance)
             ELSE ScanRemaining(rem, sel, i + 1, max_site, max_distance)

MaxSite(rem, sel) == ScanRemaining(rem, sel, 1, 0, -1)

\* seq without its element at position i
WithoutIndex(seq, i) == [j \in 1..(Len(seq) - 1) |-> IF j < i THEN seq[j] ELSE seq[j + 1]]

\* list.remove(x): seq without its first element equal to x
Remove(seq, x) ==
    WithoutIndex(seq, CHOOSE i \in 1..Len(seq) : seq[i] = x /\ \A j \in 1..(i - 1) : seq[j] # x)

\* str.replace(old, new) for a character old; new is a character or ""
Replace(chars, old, new) ==
    LET kept == [i \in 1..Len(chars) |-> IF chars[i] = old THEN new ELSE chars[i]]
    IN  SelectSeq(kept, LAMBDA c : c # "")

RECURSIVE Text(_)
Text(chars) == IF chars = <<>> THEN "" ELSE Head(chars) \o Text(Tail(chars))

\* Lines 126-129: the i-th selected site (i from 1) under its positional name.
Normalize(i, s) ==
    LET safe_name == Replace(Replace(s.name, " ", "_"), ",", "")
    IN  [name |-> "site_" \o ToString(i) \o "_" \o Text(safe_name),
         latitude |-> s.latitude, longitude |-> s.longitude]

\* Line 107: the pool is smaller than the requested number of sites.
PoolTooSmallOffByOne(p, count) == Len(p) + 1 < count
PoolTooSmall(p, count) == Len(p) < count

\* select_sites, lines 106-110.
SelectStart ==
    /\ sel_pc = "select"
    /\ pool' = sites
    /\ IF PoolTooSmall(sites, n)
       THEN /\ sel_pc' = "raised"
            /\ sel_error' = "ValueError"
            /\ UNCHANGED <<selected, remaining>>
       ELSE IF sites = <<>>
       THEN /\ sel_pc' = "raised"
            /\ sel_error' = "IndexError"
            /\ UNCHANGED <<selected, remaining>>
       ELSE /\ selected' = <<sites[1]>>
            /\ remaining' = Tail(sites)
            /\ sel_pc' = "loop"
            /\ UNCHANGED sel_error
    /\ UNCHANGED <<seed, n, sites, normalized, first, simVars, sweepVars>>

\* One iteration of the while loop that selects a site, lines 111-125.
GreedyStep ==
    /\ sel_pc = "loop"
    /\ Len(selected) < n
    /\ MaxSite(remaining, selected) # 0
    /\ LET max_site == remaining[MaxSite(remaining, selected)]
       IN  /\ selected' = Append(selected, max_site)
           /\ remaining' = Remove(remaining, max_site)
    /\ UNCHANGED <<seed, n, sites, pool, normalized, sel_pc, sel_error, first,
                   simVars, sweepVars>>

\* The loop ends, by its condition or by the break of line 123, and the
\* selected sites are renamed and returned, lines 126-130.
SelectReturn ==
    /\ sel_pc = "loop"
    /\ ~(Len(selected) < n) \/ MaxSite(remaining, selected) = 0
    /\ normalized' = [i \in 1..Len(selected) |-> Normalize(i, selected[i])]
    /\ sel_pc' = "done"
    /\ UNCHANGED <<seed, n, sites, pool, selected, remaining, sel_error, first,
                   simVars, sweepVars>>

NoSimulation ==
    /\ site \in SimSites
    /\ datetimes = <<>>
    /\ pv_kwh_per_kw = <<>>
    /\ pv_gw = 0
    /\ battery_gwh = 0
    /\ baseload_gw = 0
    /\ rte = [num |-> 0, den |-> 1]
    /\ soc = 0
    /\ unmet_total = 0
    /\ overproduction_total = 0
    /\ served_total = 0
    /\ k = 0
    /\ hour = NoHour
    /\ hourly_rows = <<>>
    /\ summary = NoSummary
    /\ pc = "idle"

\* A call of select_sites with any pool of at most MaxPool candidates.
SelInit ==
    /\ NoSimulation
    /\ NoSweep
    /\ seed = <<>>
    /\ n \in 0..(MaxPool + 1)
    /\ sites \in SeqsUpTo(CandidateSites, MaxPool)
    /\ pool = <<>>
    /\ selected = <<>>
    /\ remaining = <<>>
    /\ normalized = <<>>
    /\ sel_pc = "select"
    /\ sel_error = ""
    /\ first = NoFirst

SelNext == SelectStart \/ GreedyStep \/ SelectReturn

SelSpec == SelInit /\ [][SelNext]_vars

---------------------------------------------------------------------------
(* generate_candidate_sites and generate_sites *)

\* The seeds the model calls generate_sites with: None, 42 (main's default), 7.
SeedChoices == {<<>>, <<42>>, <<7>>}

\* The t-th number a random.Random(s) hands to shuffle, below bound.  The
\* generator is the library's; all the model keeps of it is that the number
\* is a function of the seed and of the draws made so far.
RandBelow(s, t, bound) == (s * (2 * t + 1) + t * t) % bound

\* The draws of one shuffle of a list of length len: draws[i] is the j in
\* 0..i drawn for position i (0-based), positions len-1 down to 1.
SeededDraws(s, len) == [i \in 1..(len - 1) |-> RandBelow(s, len - i, i + 1)]
AllDraws(len) == {d \in [1..(len - 1) -> 0..(len - 1)] : \A i \in 1..(len - 1) : d[i] <= i}

Swap(x, a, b) == [x EXCEPT ![a] = x[b], ![b] = x[a]]

\* random.shuffle: for i in reversed(range(1, len(x))): swap x[i], x[j]
RECURSIVE ShuffleFrom(_, _, _)
ShuffleFrom(x, i, draws) ==
    IF i < 1 THEN x ELSE ShuffleFrom(Swap(x, i + 1, draws[i] + 1), i - 1, draws)

\* Lines 97-99: what rng.shuffle(candidates) can leave for rng = Random(sd).
\* Random(None) is seeded from the clock or the OS: any draws.
ShufflesIgnoringSeed(sd, x) == {ShuffleFrom(x, Len(x) - 1, d) : d \in AllDraws(Len(x))}
Shuffles(sd, x) ==
    IF sd = <<>>
    THEN {ShuffleFrom(x, Len(x) - 1, d) : d \in AllDraws(Len(x))}
    ELSE {ShuffleFrom(x, Len(x) - 1, SeededDraws(sd[1], Len(x)))}

\* generate_sites, lines 133-135, up to its call of select_sites.
GenerateCandidates ==
    /\ sel_pc = "generate"
    /\ \E candidates \in Shuffles(seed, CANDIDATE_COORDINATES) : sites' = candidates
    /\ sel_pc' = "select"
    /\ UNCHANGED <<seed, n, pool, selected, remaining, normalized, sel_error, first,
                   simVars, sweepVars>>

\* How a call of select_sites ended.
Outcome == [pc |-> sel_pc, error |-> sel_error, sites |-> normalized]

\* main, line 50, run once more with the same --sites and any --seed.
SecondRun ==
    /\ sel_pc \in {"done", "raised"}
    /\ ~first.done
    /\ first' = [done |-> TRUE, seed |-> seed, shuffled |-> sites, outcome |-> Outcome]
    /\ seed' \in SeedChoices
    /\ sites' = <<>>
    /\ pool' = <<>>
    /\ selected' = <<>>
    /\ remaining' = <<>>
    /\ normalized' = <<>>
    /\ sel_error' = ""
    /\ sel_pc' = "generate"
    /\ UNCHANGED <<n, simVars, sweepVars>>

\* A call of generate_sites with any seed and any number of sites.
GenInit ==
    /\ NoSimulation
    /\ NoSweep
    /\ seed \in SeedChoices
    /\ n \in 0..(Len(CANDIDATE_COORDINATES) + 1)
    /\ sites = <<>>
    /\ pool = <<>>
    /\ selected = <<>>
    /\ remaining = <<>>
    /\ normalized = <<>>
    /\ sel_pc = "generate"
    /\ sel_error = ""
    /\ first = NoFirst

GenNext == GenerateCandidates \/ SelectStart \/ GreedyStep \/ SelectReturn \/ SecondRun

GenSpec == GenInit /\ [][GenNext]_vars

---------------------------------------------------------------------------
(* Properties of the dispatch simulation *)

\* Every hourly yield of the series is >= 0.
NonNegativeYields == \A j \in 1..Len(pv_kwh_per_kw) : pv_kwh_per_kw[j] >= 0

\* The series is what the data contract promises: one value and one timestamp
\* per expected hour, no negative value.
WellFormedSeries ==
    /\ Len(pv_kwh_per_kw) = ExpectedHours
    /\ Len(datetimes) = ExpectedHours
    /\ NonNegativeYields

\* C1: with battery_gwh >= 0, rte in [0,1] and every yield >= 0, the state of
\* charge starts at half the capacity and, after every hour, the value the
\* hour records lies in [0, capacity_mwh].
C1_SocWithinCapacity ==
    (battery_gwh >= 0 /\ rte.num <= rte.den /\ NonNegativeYields) =>
        /\ 0 <= soc /\ soc <= capacity_mwh
        /\ (k = 0 /\ pc = "loop" => 2 * soc = battery_gwh * 1000 * Scale)
        /\ (k > 0 => /\ hour.soc = soc
                     /\ hourly_rows[Len(hourly_rows)].battery_state_of_charge_mwh
                            = Fixed(soc, 6))

\* C1 witness: a surplus hour whose charge was cut by the headroom left the
\* battery exactly full, after an earlier hour had emptied it.
C1_Witness ==
    /\ NonNegativeYields
    /\ k > 1
    /\ capacity_mwh > 0
    /\ hour.surplus > 0
    /\ hour.charge_added < hour.potential_charge
    /\ soc = capacity_mwh
    /\ unmet_total > 0

\* C2: in every simulated hour, served + unmet = load = baseload_gw * 1000 MWh.
C2_ServedPlusUnmetIsLoad ==
    k > 0 =>
        /\ hour.served + hour.unmet = baseload_mwh
        /\ baseload_mwh = baseload_gw * 1000 * Scale

\* C2 witness: a deficit hour the battery covered in part.
C2_Witness ==
    /\ k > 0
    /\ hour.discharge_to_load > 0
    /\ hour.unmet > 0
    /\ hour.served > 0

\* C7: with battery_gwh = 0 every surplus hour curtails the whole surplus,
\* every deficit hour leaves the whole deficit unmet, and charge, discharge
\* and state of charge stay 0.
C7_ZeroBatteryIsNoOp ==
    battery_gwh = 0 =>
        /\ soc = 0
        /\ k > 0 =>
            /\ (hour.solar_mwh > baseload_mwh =>
                    hour.overproduction = hour.solar_mwh - baseload_mwh)
            /\ (hour.solar_mwh < baseload_mwh =>
                    hour.unmet = baseload_mwh - hour.solar_mwh)
            /\ hour.charge_added = 0
            /\ hour.discharge_to_load = 0
            /\ hour.soc = 0

\* C7 witness: a zero-battery run with a usable efficiency that has seen a
\* deficit hour and then a surplus hour.
C7_Witness ==
    /\ battery_gwh = 0
    /\ rte.num > 0
    /\ k > 1
    /\ unmet_total > 0
    /\ hour.overproduction > 0

\* C8: with round_trip_efficiency = 0 no division error is raised, every
\* deficit hour leaves the whole deficit unmet, every surplus hour curtails
\* the whole surplus, and the state of charge stays at its initial value.
C8_ZeroEfficiencyIsSafe ==
    rte.num = 0 =>
        /\ pc # "raised"
        /\ soc = InitialSoc(capacity_mwh)
        /\ k > 0 =>
            /\ (hour.solar_mwh > baseload_mwh =>
                    hour.overproduction = hour.solar_mwh - baseload_mwh)
            /\ (hour.solar_mwh < baseload_mwh =>
                    hour.unmet = baseload_mwh - hour.solar_mwh)
            /\ hour.charge_added = 0
            /\ hour.discharge_to_load = 0

\* C8 witness: a zero-efficiency run of a real battery that returned its
\* summary after a deficit hour and a surplus hour.
C8_Witness ==
    /\ rte.num = 0
    /\ capacity_mwh > 0
    /\ pc = "returned"
    /\ unmet_total > 0
    /\ overproduction_total > 0

\* C10: a malformed yield series (wrong length, or a negative value) is
\* rejected: no hourly row is written for it and no summary is returned.
C10_RejectsMalformedSeries ==
    ~WellFormedSeries => hourly_rows = <<>> /\ pc # "returned"

\* The record the last call of hourly_writer.writerow received.
LastRow == hourly_rows[Len(hourly_rows)]

\* C11: in a deficit hour (solar < load) with e = sqrt(rte) = num/den > 0 the
\* draw is min(soc, deficit/e), the state of charge falls by the draw, the
\* energy delivered to load is draw*e, unmet = max(0, deficit - draw*e), and
\* charge and overproduction are 0.  The relations are cross-multiplied by
\* num and den, so they are stated without a division.  Example: load 1000,
\* solar 500, soc 500, e = 9/10 give delivered 450, unmet 50, soc after 0.
C11_DeficitHourDischarges ==
    LET e == Sqrt(rte)
    IN  (k > 0 /\ hour.solar_mwh < baseload_mwh /\ e.num > 0) =>
            /\ hour.deficit = baseload_mwh - hour.solar_mwh
            /\ hour.possible_discharge * e.num
                   = Min(hour.soc_before * e.num, hour.deficit * e.den)
            /\ hour.soc = hour.soc_before - hour.possible_discharge
            /\ hour.discharge_to_load * e.den = hour.possible_discharge * e.num
            /\ hour.unmet = Max(0, hour.deficit - hour.discharge_to_load)
            /\ hour.charge_added = 0
            /\ hour.overproduction = 0
            /\ soc = hour.soc
            /\ (/\ hour.solar_mwh = 500 * Scale
                /\ baseload_mwh = 1000 * Scale
                /\ hour.soc_before = 500 * Scale
                /\ 10 * e.num = 9 * e.den) =>
                    /\ hour.discharge_to_load = 450 * Scale
                    /\ hour.unmet = 50 * Scale
                    /\ hour.soc = 0
                    /\ LastRow.battery_discharge_mwh = "450.000000"
                    /\ LastRow.unmet_load_mwh = "50.000000"
                    /\ LastRow.battery_state_of_charge_mwh = "0.000000"

\* C11 witness: the example hour (load 1000, solar 500, soc 500, e = 9/10)
\* has run: the battery was emptied and 50 MWh stayed unmet.
C11_Witness ==
    /\ k > 0
    /\ 10 * Sqrt(rte).num = 9 * Sqrt(rte).den
    /\ baseload_mwh = 1000 * Scale
    /\ hour.solar_mwh = 500 * Scale
    /\ hour.soc_before = 500 * Scale
    /\ hour.unmet = 50 * Scale

\* C12: in a surplus hour (solar > load) with e = sqrt(rte) = num/den > 0 the
\* energy added to storage is min(capacity - soc, surplus*e), the state of
\* charge rises by it, overproduction = max(0, surplus - charge_added/e),
\* discharge and unmet are 0, and solar = load + charge_added/e +
\* overproduction (cross-multiplied by num and den).
C12_SurplusHourCharges ==
    LET e == Sqrt(rte)
    IN  (k > 0 /\ hour.solar_mwh > baseload_mwh /\ e.num > 0) =>
            /\ hour.surplus = hour.solar_mwh - baseload_mwh
            /\ hour.charge_added * e.den
                   = Min((capacity_mwh - hour.soc_before) * e.den, hour.surplus * e.num)
            /\ hour.soc = hour.soc_before + hour.charge_added
            /\ hour.overproduction * e.num
                   = Max(0, hour.surplus * e.num - hour.charge_added * e.den)
            /\ hour.discharge_to_load = 0
            /\ hour.unmet = 0
            /\ hour.solar_mwh * e.num
                   = baseload_mwh * e.num + hour.charge_added * e.den
                         + hour.overproduction * e.num
            /\ soc = hour.soc

\* C12 witness: a surplus hour with a lossy battery in which the headroom cut
\* the charge, so that part of the surplus was stored and part curtailed.
C12_Witness ==
    /\ k > 0
    /\ Sqrt(rte).num > 0
    /\ Sqrt(rte).num < Sqrt(rte).den
    /\ hour.solar_mwh > baseload_mwh
    /\ hour.charge_added > 0
    /\ hour.charge_added < hour.potential_charge
    /\ hour.overproduction > 0

\* Surplus energy diverted into the battery (surplus minus overproduction)
\* and energy the battery delivered to load, summed over the first j hours.
RECURSIVE StoredSoFar(_)
StoredSoFar(j) ==
    IF j = 0 THEN 0
    ELSE StoredSoFar(j - 1) + (HourAt(j).surplus - HourAt(j).overproduction)

RECURSIVE DeliveredSoFar(_)
DeliveredSoFar(j) ==
    IF j = 0 THEN 0 ELSE DeliveredSoFar(j - 1) + HourAt(j).discharge_to_load

\* C13: with round_trip_efficiency = 1 storage is lossless: after every hour
\* the state of charge is the initial state of charge (half the capacity)
\* plus the surplus diverted into the battery so far minus the energy the
\* battery delivered to load so far.  The hours summed are the hours run:
\* the last of them is the hour just recorded.
C13_LosslessStorage ==
    (rte.num = rte.den /\ k > 0) =>
        /\ HourAt(k) = hour
        /\ 2 * soc = capacity_mwh + 2 * StoredSoFar(k) - 2 * DeliveredSoFar(k)
        /\ hour.soc - hour.soc_before
               = (hour.surplus - hour.overproduction) - hour.discharge_to_load

\* C13 witness: a lossless run of three hours or more in which the battery
\* ran empty in one hour (load stayed unmet), was filled to the brim in
\* another (surplus was curtailed) and delivered energy to load.
C13_Witness ==
    /\ rte.num = rte.den
    /\ NonNegativeYields
    /\ k > 2
    /\ unmet_total > 0
    /\ overproduction_total > 0
    /\ StoredSoFar(k) > 0
    /\ DeliveredSoFar(k) > 0

SummaryConsistent ==
    /\ Len(hourly_rows) = Len(datetimes)
    /\ \A j \in 1..Len(hourly_rows) :
           /\ hourly_rows[j].datetime = IsoFormat(datetimes[j])
           /\ hourly_rows[j].solar_generation_mwh = Fixed(SolarMwh(pv_kwh_per_kw[j]), 6)
           /\ hourly_rows[j].load_mwh = Fixed(baseload_mwh, 2)
    /\ summary.annual_load_mwh = Fixed(Len(hourly_rows) * baseload_mwh, 2)
    /\ summary.energy_served_mwh = Fixed(served_total, 2)
    /\ summary.unmet_load_mwh = Fixed(unmet_total, 2)
    /\ served_total + unmet_total = Len(datetimes) * baseload_mwh
    /\ 0 <= served_total
    /\ served_total <= Len(datetimes) * baseload_mwh
    /\ summary.capacity_factor =
           IF Len(datetimes) > 0
           THEN Decimal(RoundDiv(served_total, (Len(datetimes) * baseload_mwh) \div 10000), 4)
           ELSE "0.0000"

\* The profile pairs every timestamp with a value and has no negative value.
SoundSeries == Len(pv_kwh_per_kw) >= Len(datetimes) /\ NonNegativeYields

\* C15: for every configuration and every solar profile passed to
\* _simulate_single_configuration, the call that returns has emitted one
\* record per input hour in input order and a summary consistent with them.
C15_RecordsAndSummaryConsistent == pc = "returned" => SummaryConsistent

\* The same for the profiles that are sound.
SummaryConsistentOnSoundSeries == (pc = "returned" /\ SoundSeries) => SummaryConsistent

---------------------------------------------------------------------------
(* Properties of run_yearly_simulation *)

\* The pv and battery levels of the r-th pair of the Cartesian product, pv
\* the outer loop.
PairPv(r) == pv_capacities_gw[((r - 1) \div Len(battery_capacities_gwh)) + 1]
PairBattery(r) == battery_capacities_gwh[((r - 1) % Len(battery_capacities_gwh)) + 1]

\* C9: the sweep returns one summary per (pv, battery) pair, pv outer and
\* battery inner; every configuration's run starts from half its own
\* capacity with zero totals; and the summary of a configuration is the same
\* wherever it stands in the sweep and whatever ran before it.
C9_SweepIsCartesianAndIndependent ==
    /\ \A r \in 1..Len(summary_rows) :
        /\ Len(battery_capacities_gwh) > 0
        /\ r <= Len(pv_capacities_gw) * Len(battery_capacities_gwh)
        /\ summary_rows[r].pv_gw = FixedInt(PairPv(r), 2)
        /\ summary_rows[r].battery_gwh = FixedInt(PairBattery(r), 2)
        /\ summary_rows[r].site = site.name
    /\ sweep_pc = "done" =>
            Len(summary_rows) = Len(pv_capacities_gw) * Len(battery_capacities_gwh)
    /\ (pc = "loop" /\ k = 0) =>
            /\ 2 * soc = battery_gwh * 1000 * Scale
            /\ unmet_total = 0 /\ overproduction_total = 0 /\ served_total = 0
    /\ \A r1, r2 \in 1..Len(summary_rows) :
            (PairPv(r1) = PairPv(r2) /\ PairBattery(r1) = PairBattery(r2))
                => summary_rows[r1] = summary_rows[r2]

\* C9 witness: a finished sweep of four configurations in which one
\* configuration ran twice, after different predecessors, a different one
\* ran in between, and the last run left the battery away from half charge.
C9_Witness ==
    /\ sweep_pc = "done"
    /\ Len(summary_rows) = 4
    /\ summary_rows[1] = summary_rows[3]
    /\ summary_rows[1] # summary_rows[2]
    /\ summary_rows[2] = summary_rows[4]
    /\ battery_capacities_gwh[1] # battery_capacities_gwh[2]
    /\ 2 * soc # capacity_mwh

---------------------------------------------------------------------------
(* Properties of the site selection *)

\* C3: when more sites are asked for than the pool holds, select_sites
\* raises ValueError and selects nothing: no list is built or returned.
C3_TooFewCandidatesRaises ==
    Len(sites) < n =>
        /\ sel_pc \in {"select", "raised"}
        /\ (sel_pc = "raised" => sel_error = "ValueError")
        /\ selected = <<>>
        /\ normalized = <<>>

\* C3 witness: the call on a non-empty pool that is too small has failed.
C3_Witness ==
    /\ sel_pc = "raised"
    /\ sel_error = "ValueError"
    /\ sites # <<>>
    /\ Len(sites) < n

\* C4: for a non-empty pool and a count not above its length, select_sites
\* returns exactly count sites, the first of them the first of the pool.
C4_ReturnsCountSites ==
    (sel_pc = "done" /\ sites # <<>> /\ n <= Len(sites)) =>
        /\ Len(normalized) = n
        /\ normalized[1] = Normalize(1, sites[1])

\* s holds the elements of seq at the positions outside the set taken, in order.
RECURSIVE Untaken(_, _, _)
Untaken(seq, taken, i) ==
    IF i > Len(seq) THEN <<>>
    ELSE IF i \in taken THEN Untaken(seq, taken, i + 1)
    ELSE <<seq[i]>> \o Untaken(seq, taken, i + 1)

\* remaining is the pool without its selected positions, in pool order.
RemainingInPoolOrder ==
    sel_pc = "loop" =>
        \E taken \in SUBSET (1..Len(pool)) :
            /\ 1 \in taken
            /\ Cardinality(taken) = Len(selected)
            /\ remaining = Untaken(pool, taken, 1)

\* A greedy step adds the remaining candidate at position i, which no
\* remaining candidate beats and no earlier one equals in minimum distance
\* to the selected sites, and takes it out of remaining.
FarthestFirstStep ==
    (sel_pc = "loop" /\ selected' # selected) =>
        \E i \in 1..Len(remaining) :
            /\ selected' = Append(selected, remaining[i])
            /\ remaining' = WithoutIndex(remaining, i)
            /\ \A j \in 1..Len(remaining) :
                    MinDistance(remaining[j], selected) <= MinDistance(remaining[i], selected)
            /\ \A j \in 1..(i - 1) :
                    MinDistance(remaining[j], selected) < MinDistance(remaining[i], selected)

\* The four collinear points at longitudes 0, 1, 2, 3, the pool starting at 0.
Collinear == CANDIDATE_COORDINATES

CollinearExample ==
    (sites = Collinear /\ n = 2 /\ sel_pc = "done") =>
        /\ Len(normalized) = 2
        /\ normalized[2].latitude = 0
        /\ normalized[2].longitude = 3

\* C5: every greedy step adds the remaining candidate farthest (in minimum
\* distance) from the selected sites, the earliest in pool order among those
\* at that distance; from the collinear pool 0,1,2,3 and count 2 the second
\* site is the one at 3.
C5_GreedyFarthestFirst ==
    /\ [][FarthestFirstStep]_vars
    /\ [](RemainingInPoolOrder /\ CollinearExample)

\* C5 witness: from the pool 1, 2, 0, 3 the third site was a tie between the
\* points at 2 and 0 (both 1 degree from a selected site) and the earlier
\* in the pool, 2, was taken.
C5_Witness ==
    /\ sel_pc = "done"
    /\ n = 3
    /\ sites = <<Collinear[2], Collinear[3], Collinear[1], Collinear[4]>>
    /\ normalized[2].longitude = 3
    /\ normalized[3].longitude = 2

===========================================================================
